---- MODULE Spec2Model ----
(***************************************************************************)
(* State-machine model of the PhotoEditor component of                     *)
(* src/src/app/page.tsx.  The source holds two definitions of PhotoEditor  *)
(* (lines 41-395 and lines 425-800); `editor` says which one is mounted.   *)
(* They share state, upload handling, the download link and the body of    *)
(* createFinalImage up to the date overlay; they differ in the overlay and *)
(* in the controls they render.                                            *)
(*                                                                         *)
(* Lengths in pixels that may be fractional (font size, padding) are kept  *)
(* as integers in units of 1/PxUnit pixel.  Strings that the code builds   *)
(* or edits character by character are sequences of one-character strings. *)
(***************************************************************************)
EXTENDS Integers, Sequences, FiniteSets, TLC

VARIABLES
    editor,             \* which PhotoEditor definition is mounted: "first" | "second"
    imageSrc,           \* useState<string | null>: data URL of the uploaded file
    crop,               \* useState({x, y}): cropper offset
    zoom,               \* useState(1): zoom, in tenths
    rotation,           \* useState(0): degrees
    cropShape,          \* useState<'rect' | 'round'>
    aspectRatio,        \* useState<number | null>: [value: in 1/10000], or null
    croppedAreaPixels,  \* useState<CroppedAreaPixels | null>
    selectedDate,       \* useState<Date | null>
    finalImage,         \* useState<string | null>: data URL of the result
    showTouchControls,  \* useState(true), second definition only
    readers,            \* files handed to FileReader.readAsDataURL, load event pending
    calls               \* invocations of createFinalImage, in the order issued

vars == <<editor, imageSrc, crop, zoom, rotation, cropShape, aspectRatio,
          croppedAreaPixels, selectedDate, finalImage, showTouchControls,
          readers, calls>>

ui == <<crop, zoom, rotation, cropShape, aspectRatio, croppedAreaPixels,
        selectedDate, showTouchControls>>

----------------------------------------------------------------------------
(* Bounds of the model *)

MaxCalls == 2       \* createFinalImage invocations per behaviour, where calls overlap
MaxEditCalls == 1   \* createFinalImage invocations per behaviour of SpecEdit
MaxReaders == 1     \* FileReader loads pending at the same time
MaxZoomSteps == 1   \* the Zoom button is pressed at most this far below its cap

(* JavaScript null, for the record-valued state. The string-valued imageSrc *)
(* uses the string "null".                                                  *)
null == [null |-> TRUE]

(* The files the user can pick: a wide image, an image one pixel wide, and  *)
(* a file whose data URL does not decode; "large" is a photo of 4000 x 3000 *)
(* pixels.                                                                  *)
Files == {"wide", "thin", "corrupt"}
Decodable(f) == f \in {"wide", "thin", "large"}
NaturalWidth(f) ==
    CASE f = "wide" -> 1000 [] f = "thin" -> 1 [] f = "large" -> 4000 [] OTHER -> 0
NaturalHeight(f) ==
    CASE f = "wide" -> 50 [] f = "thin" -> 50 [] f = "large" -> 3000 [] OTHER -> 0

Min(a, b) == IF a <= b THEN a ELSE b

----------------------------------------------------------------------------
(* Strings: String(n), padStart, replace(/\//g, '-') and the template       *)
(* literals, on sequences of characters.                                    *)

DigitChar(d) == <<"0", "1", "2", "3", "4", "5", "6", "7", "8", "9">>[d + 1]

RECURSIVE NumberToString(_)
NumberToString(n) ==
    IF n < 10 THEN <<DigitChar(n)>>
    ELSE NumberToString(n \div 10) \o <<DigitChar(n % 10)>>

RECURSIVE PadStart(_, _, _)
PadStart(s, targetLength, ch) ==
    IF Len(s) >= targetLength THEN s ELSE PadStart(<<ch>> \o s, targetLength, ch)

(* replace('/', '-'): a string pattern replaces the first match only. *)
ReplaceFirst(s, from, to) ==
    [i \in 1..Len(s) |->
        IF s[i] = from /\ (\A k \in 1..(i - 1) : s[k] # from) THEN to ELSE s[i]]

ReplaceAll(s, from, to) ==
    [i \in 1..Len(s) |-> IF s[i] = from THEN to ELSE s[i]]

(* A Date is [year, month, day] with month as getMonth() gives it (0..11)   *)
(* and day as getDate() gives it (1..31).                                   *)
FormatMonth(date) == PadStart(NumberToString(date.month + 1), 2, "0")

(* String(date.getDate()) without padStart. *)
FormatDayUnpadded(date) == NumberToString(date.day)

FormatDay(date) == PadStart(NumberToString(date.day), 2, "0")

formatDate(date) ==
    NumberToString(date.year) \o <<"/">> \o FormatMonth(date) \o <<"/">> \o FormatDay(date)

DashedDate(date) == ReplaceAll(formatDate(date), "/", "-")

(* The download attribute of the "Save Image" link, for the state's date.   *)
Photo(token) == <<"p", "h", "o", "t", "o", "_">> \o token \o <<".", "p", "n", "g">>

DownloadName ==
    Photo(IF selectedDate # null THEN DashedDate(selectedDate)
          ELSE <<"e", "d", "i", "t", "e", "d">>)

----------------------------------------------------------------------------
(* createFinalImage: the canvas and what is drawn on it.  `c` is the call's *)
(* record: the values the callback closed over when it was invoked.         *)

PxUnit == 80        \* fractional pixels: 0.05 = 4/80, 0.75 of that = 3/80
FontCap == 32       \* Math.min(canvas.width * 0.05, 32)
FixedFont == 16     \* 'bold 16px Arial'

(* The canvas sized for the rotated image: width and height swapped at a    *)
(* quarter turn.                                                            *)
CanvasWidthRotated(c) ==
    IF c.rotation % 180 = 90 THEN c.croppedAreaPixels.height
    ELSE c.croppedAreaPixels.width

(* The canvas scaled by the zoom of the moment. *)
CanvasWidthZoomed(c) == (c.croppedAreaPixels.width * zoom) \div 10

CanvasWidth(c) == c.croppedAreaPixels.width

CanvasHeight(c) == c.croppedAreaPixels.height

Max(a, b) == IF a >= b THEN a ELSE b

(* ctx.measureText and the font box of 'bold <size>px Arial': advance       *)
(* widths, ascent and descent of Arial Bold in 1/1000 em.                   *)
EmUnit == 1000
DigitAdvance == 556
SlashAdvance == 278
FontAscent == 905
FontDescent == 212

RECURSIVE AdvanceSum(_)
AdvanceSum(text) ==
    IF Len(text) = 0 THEN 0
    ELSE AdvanceSum(SubSeq(text, 1, Len(text) - 1))
            + (IF text[Len(text)] = "/" THEN SlashAdvance ELSE DigitAdvance)

TextWidth(text, fontSize) == (AdvanceSum(text) * fontSize) \div EmUnit

(* Second definition: responsive label. *)
LabelFontSize(width) == Min((width * PxUnit) \div 20, FontCap * PxUnit)

(* fontSize * 0.075 *)
LabelPaddingThin(fontSize) == (fontSize * 3) \div 40

LabelPadding(fontSize) == (fontSize * 3) \div 4

ResponsiveLabel(c) ==
    LET fontSize == LabelFontSize(CanvasWidth(c))
        padding == LabelPadding(fontSize)
        textWidth == TextWidth(formatDate(c.selectedDate), fontSize)
    IN  [fontSize |-> fontSize,
         opacity |-> 7,
         boxX |-> padding,
         boxY |-> CanvasHeight(c) * PxUnit - (fontSize + padding * 2),
         boxW |-> textWidth + padding * 2,
         boxH |-> fontSize + padding * 2,
         textX |-> padding * 2,
         textY |-> CanvasHeight(c) * PxUnit - padding,
         textW |-> textWidth]

(* First definition: fixed label. *)
FixedLabel(c) ==
    [fontSize |-> FixedFont * PxUnit,
     opacity |-> 6,
     boxX |-> 10 * PxUnit,
     boxY |-> (CanvasHeight(c) - 40) * PxUnit,
     boxW |-> 150 * PxUnit,
     boxH |-> 30 * PxUnit,
     textX |-> 20 * PxUnit,
     textY |-> (CanvasHeight(c) - 20) * PxUnit,
     textW |-> TextWidth(formatDate(c.selectedDate), FixedFont * PxUnit)]

Label(c) == IF editor = "first" THEN FixedLabel(c) ELSE ResponsiveLabel(c)

----------------------------------------------------------------------------
(* The 2D context.  Steps(c) is the calls createFinalImage makes on the     *)
(* context, in program order; Exec is the effect of one call on the         *)
(* drawing state and on the alpha of two pixels of the canvas: the corner   *)
(* (0,0) and the centre (floor(w/2), floor(h/2)).  Coordinates are in       *)
(* 1/PxUnit pixel, alpha in 1/AlphaOne, the part of a pixel a shape covers  *)
(* in 1/CoverFull.  Rotation angles are taken as quarter turns.             *)

AlphaOne == 25600
CoverFull == PxUnit * PxUnit

(* Alpha of the decoded image: "large" is a half-transparent PNG. *)
SourceAlpha(f) == IF f = "large" THEN AlphaOne \div 2 ELSE AlphaOne

Op(name, args) == [op |-> name, a |-> args]

(* ctx.save() ... ctx.restore() left out of the rotation block. *)
DrawStepsUnrestored(c) ==
    LET w == CanvasWidth(c) * PxUnit
        h == CanvasHeight(c) * PxUnit
        area == c.croppedAreaPixels
    IN  << Op("translate", <<w \div 2, h \div 2>>),
           Op("rotate", <<c.rotation>>),
           Op("translate", <<-(w \div 2), -(h \div 2)>>),
           Op("drawImage", <<c.imageSrc, area.x, area.y, area.width, area.height,
                             0, 0, area.width, area.height>>) >>

DrawSteps(c) ==
    LET w == CanvasWidth(c) * PxUnit
        h == CanvasHeight(c) * PxUnit
        area == c.croppedAreaPixels
    IN  << Op("save", <<>>),
           Op("translate", <<w \div 2, h \div 2>>),
           Op("rotate", <<c.rotation>>),
           Op("translate", <<-(w \div 2), -(h \div 2)>>),
           Op("drawImage", <<c.imageSrc, area.x, area.y, area.width, area.height,
                             0, 0, area.width, area.height>>),
           Op("restore", <<>>) >>

MaskSteps(c) ==
    LET w == CanvasWidth(c) * PxUnit
        h == CanvasHeight(c) * PxUnit
    IN  IF c.cropShape = "round"
        THEN << Op("globalCompositeOperation", <<"destination-in">>),
                Op("beginPath", <<>>),
                Op("arc", <<w \div 2, h \div 2, Min(w, h) \div 2>>),
                Op("fill", <<>>),
                Op("globalCompositeOperation", <<"source-over">>) >>
        ELSE <<>>

LabelSteps(c) ==
    LET label == Label(c)
        dateText == formatDate(c.selectedDate)
    IN  IF editor = "first"
        THEN << Op("fillStyle", <<label.opacity>>),
                Op("fillRect", <<label.boxX, label.boxY, label.boxW, label.boxH>>),
                Op("fillStyle", <<10>>),
                Op("font", <<label.fontSize>>),
                Op("fillText", <<dateText, label.textX, label.textY>>) >>
        ELSE << Op("font", <<label.fontSize>>),
                Op("measureText", <<dateText>>),
                Op("fillStyle", <<label.opacity>>),
                Op("fillRect", <<label.boxX, label.boxY, label.boxW, label.boxH>>),
                Op("fillStyle", <<10>>),
                Op("fillText", <<dateText, label.textX, label.textY>>) >>

Steps(c) == DrawSteps(c) \o MaskSteps(c) \o LabelSteps(c) \o <<Op("toDataURL", <<>>)>>

(* A fresh context on a canvas of the call's size: the defaults of the      *)
(* drawing state, every pixel transparent.                                  *)
NewContext(c) ==
    [width |-> CanvasWidth(c),
     height |-> CanvasHeight(c),
     transform |-> <<>>,
     composite |-> "source-over",
     fillStyle |-> 10,
     font |-> 10 * PxUnit,
     path |-> <<>>,
     stack |-> <<>>,
     corner |-> 0,
     centre |-> 0,
     log |-> <<>>]

CornerPixel == [x |-> 0, y |-> 0]

CentrePixel(w, h) == [x |-> w \div 2, y |-> h \div 2]

Box(x0, y0, x1, y1) == [x0 |-> x0, y0 |-> y0, x1 |-> x1, y1 |-> y1]

(* The transform is the list of translate and rotate calls since the        *)
(* identity; translate(centre), rotate(angle), translate(-centre) is a turn *)
(* by angle about the centre of the canvas.                                 *)
Turn(transform) == IF Len(transform) < 2 THEN 0 ELSE transform[2].a[1] % 360

(* Where a box drawn under a turn about (cx, cy) lands on the canvas. *)
Turned(r, angle, cx, cy) ==
    CASE angle = 90 -> Box(cx + cy - r.y1, cy - cx + r.x0, cx + cy - r.y0, cy - cx + r.x1)
      [] angle = 180 -> Box(2 * cx - r.x1, 2 * cy - r.y1, 2 * cx - r.x0, 2 * cy - r.y0)
      [] angle = 270 -> Box(cx - cy + r.y0, cx + cy - r.x1, cx - cy + r.y1, cx + cy - r.x0)
      [] OTHER -> r

Overlap(a0, a1, b0, b1) == Max(0, Min(a1, b1) - Max(a0, b0))

(* The part of pixel p that box r covers. *)
BoxCover(r, p) ==
    Overlap(r.x0, r.x1, p.x * PxUnit, (p.x + 1) * PxUnit)
        * Overlap(r.y0, r.y1, p.y * PxUnit, (p.y + 1) * PxUnit)

(* The part of pixel p that the disc of path <<cx, cy, radius>> covers:     *)
(* all of it, none of it, or, for a pixel on the rim, the share of a 4 x 4  *)
(* grid of sample points inside the disc.  Computed in eighths of a pixel.  *)
DiscCover(path, p) ==
    LET cx == path[1] \div 10
        cy == path[2] \div 10
        radius == path[3] \div 10
        Inside(x, y) == (x - cx) * (x - cx) + (y - cy) * (y - cy) <= radius * radius
        left == 8 * p.x
        top == 8 * p.y
        nearX == Max(left, Min(cx, left + 8))
        nearY == Max(top, Min(cy, top + 8))
        samples == Cardinality({s \in (0..3) \X (0..3) :
                        Inside(left + 2 * s[1] + 1, top + 2 * s[2] + 1)})
    IN  IF /\ Inside(left, top) /\ Inside(left + 8, top)
           /\ Inside(left, top + 8) /\ Inside(left + 8, top + 8)
        THEN CoverFull
        ELSE IF (nearX - cx) * (nearX - cx) + (nearY - cy) * (nearY - cy)
                    >= radius * radius
        THEN 0
        ELSE Max(1, Min(15, samples)) * (CoverFull \div 16)

(* Every fill composited as 'source-over', whatever                        *)
(* globalCompositeOperation says.                                           *)
BlendSourceOver(composite, src, dst) == src + (dst * (AlphaOne - src)) \div AlphaOne

(* Alpha of a pixel of alpha dst after paint of alpha src. *)
Blend(composite, src, dst) ==
    IF composite = "destination-in" THEN (dst * src) \div AlphaOne
    ELSE src + (dst * (AlphaOne - src)) \div AlphaOne

Painted(ctx, coverCorner, coverCentre, alpha) ==
    [ctx EXCEPT
        !.corner = Blend(ctx.composite, (alpha * coverCorner) \div CoverFull, ctx.corner),
        !.centre = Blend(ctx.composite, (alpha * coverCentre) \div CoverFull, ctx.centre)]

(* The box a shape drawn as r covers under the current transform. *)
OnCanvas(ctx, r) ==
    Turned(r, Turn(ctx.transform), (ctx.width * PxUnit) \div 2, (ctx.height * PxUnit) \div 2)

PaintBox(ctx, r, alpha) ==
    LET centre == CentrePixel(ctx.width, ctx.height)
        box == OnCanvas(ctx, r)
    IN  Painted(ctx, BoxCover(box, CornerPixel), BoxCover(box, centre), alpha)

LoggedOps == {"rotate", "drawImage", "restore", "fill", "fillRect", "fillText", "toDataURL"}

Logged(ctx, step) ==
    IF step.op \in LoggedOps
    THEN [ctx EXCEPT !.log = Append(ctx.log,
                [op |-> step.op,
                 identity |-> (ctx.transform = <<>>),
                 composite |-> ctx.composite])]
    ELSE ctx

Exec(ctx, step) ==
    LET a == step.a
        now == Logged(ctx, step)
    IN  CASE step.op = "save" ->
                [now EXCEPT !.stack = Append(now.stack,
                    [transform |-> now.transform, composite |-> now.composite,
                     fillStyle |-> now.fillStyle, font |-> now.font])]
          [] step.op = "restore" ->
                IF now.stack = <<>> THEN now
                ELSE LET saved == now.stack[Len(now.stack)]
                     IN  [now EXCEPT !.stack = SubSeq(now.stack, 1, Len(now.stack) - 1),
                                     !.transform = saved.transform,
                                     !.composite = saved.composite,
                                     !.fillStyle = saved.fillStyle,
                                     !.font = saved.font]
          [] step.op \in {"translate", "rotate"} ->
                [now EXCEPT !.transform = Append(now.transform, step)]
          [] step.op = "globalCompositeOperation" -> [now EXCEPT !.composite = a[1]]
          [] step.op = "fillStyle" -> [now EXCEPT !.fillStyle = a[1]]
          [] step.op = "font" -> [now EXCEPT !.font = a[1]]
          [] step.op = "beginPath" -> [now EXCEPT !.path = <<>>]
          [] step.op = "arc" -> [now EXCEPT !.path = a]
          [] step.op = "fill" ->
                IF now.path = <<>> THEN now
                ELSE Painted(now, DiscCover(now.path, CornerPixel),
                             DiscCover(now.path, CentrePixel(now.width, now.height)),
                             (now.fillStyle * AlphaOne) \div 10)
          [] step.op = "fillRect" ->
                PaintBox(now, Box(a[1], a[2], a[1] + a[3], a[2] + a[4]),
                         (now.fillStyle * AlphaOne) \div 10)
          [] step.op = "fillText" ->
                \* the ink of the text, taken as its font box
                PaintBox(now, Box(a[2], a[3] - (now.font * FontAscent) \div EmUnit,
                                  a[2] + TextWidth(a[1], now.font),
                                  a[3] + (now.font * FontDescent) \div EmUnit),
                         (now.fillStyle * AlphaOne) \div 10)
          [] step.op = "drawImage" ->
                \* the part of the source rectangle outside the image draws nothing
                PaintBox(now, Box(a[6] * PxUnit, a[7] * PxUnit,
                                  (a[6] + Max(0, Min(a[8], NaturalWidth(a[1]) - a[2]))) * PxUnit,
                                  (a[7] + Max(0, Min(a[9], NaturalHeight(a[1]) - a[3]))) * PxUnit),
                         SourceAlpha(a[1]))
          [] OTHER -> now

RECURSIVE Run(_, _)
Run(ctx, steps) ==
    IF steps = <<>> THEN ctx ELSE Run(Exec(ctx, Head(steps)), Tail(steps))

(* canvas.toDataURL of a canvas with no pixels is the string "data:,". *)
EmptyDataURL == [empty |-> TRUE]

(* The data URL createFinalImage hands to setFinalImage, as the drawing it  *)
(* encodes.                                                                 *)
ToDataURL(c) ==
    IF CanvasWidth(c) = 0 \/ CanvasHeight(c) = 0 THEN EmptyDataURL
    ELSE LET ctx == Run(NewContext(c), Steps(c))
         IN  [width |-> CanvasWidth(c),
              height |-> CanvasHeight(c),
              image |-> c.imageSrc,
              sx |-> c.croppedAreaPixels.x,
              sy |-> c.croppedAreaPixels.y,
              sw |-> c.croppedAreaPixels.width,
              sh |-> c.croppedAreaPixels.height,
              rotation |-> c.rotation,
              mask |-> (c.cropShape = "round"),
              text |-> formatDate(c.selectedDate),
              label |-> Label(c),
              corner |-> ctx.corner,
              centre |-> ctx.centre,
              steps |-> ctx.log]

----------------------------------------------------------------------------
(* Initial state: the useState initialisers.  selectedDate starts as        *)
(* new Date(), the day the component is mounted.                            *)

Date(y, m, d) == [year |-> y, month |-> m, day |-> d]

Rect(x, y, w, h) == [x |-> x, y |-> y, width |-> w, height |-> h]

Origin == [x |-> 0, y |-> 0]

InitOn(today) ==
    /\ editor \in {"first", "second"}
    /\ imageSrc = "null"
    /\ crop = Origin
    /\ zoom = 10
    /\ rotation = 0
    /\ cropShape = "rect"
    /\ aspectRatio = null
    /\ croppedAreaPixels = null
    /\ selectedDate \in today
    /\ finalImage = null
    /\ showTouchControls = TRUE
    /\ readers = {}
    /\ calls = <<>>

----------------------------------------------------------------------------
(* Upload: onFileChange and the FileReader's load listener. *)

SelectFile(f) ==
    /\ f \notin readers
    /\ Cardinality(readers) < MaxReaders
    /\ readers' = readers \cup {f}
    /\ UNCHANGED <<editor, imageSrc, finalImage, calls>>
    /\ UNCHANGED ui

(* onFileChange with an empty file list: the handler does nothing. *)
SelectNoFile ==
    /\ UNCHANGED vars

ReaderLoad(f) ==
    /\ f \in readers
    /\ readers' = readers \ {f}
    /\ imageSrc' = f
    /\ finalImage' = null
    /\ UNCHANGED <<editor, calls>>
    /\ UNCHANGED ui

----------------------------------------------------------------------------
(* The Cropper's callbacks.  The Cropper is rendered only with an image,    *)
(* and reports a crop area only for an image it could load: an area inside  *)
(* the image, rounded to whole pixels.  Zoomed in on an image one pixel     *)
(* wide or high, the area rounds to width or height 0.                      *)

InImage(rect, f) ==
    /\ rect.x >= 0 /\ rect.y >= 0 /\ rect.width >= 0 /\ rect.height >= 0
    /\ rect.x + rect.width <= NaturalWidth(f)
    /\ rect.y + rect.height <= NaturalHeight(f)
    /\ (rect.width = 0 => NaturalWidth(f) = 1)
    /\ (rect.height = 0 => NaturalHeight(f) = 1)

onCropComplete(rect) ==
    /\ imageSrc # "null"
    /\ Decodable(imageSrc)
    /\ InImage(rect, imageSrc)
    /\ croppedAreaPixels' = rect
    /\ UNCHANGED <<editor, imageSrc, crop, zoom, rotation, cropShape, aspectRatio,
                   selectedDate, finalImage, showTouchControls, readers, calls>>

onCropChange(point) ==
    /\ imageSrc # "null"
    /\ crop' = point
    /\ UNCHANGED <<editor, imageSrc, zoom, rotation, cropShape, aspectRatio,
                   croppedAreaPixels, selectedDate, finalImage, showTouchControls,
                   readers, calls>>

onZoomChange(z) ==
    /\ imageSrc # "null"
    /\ zoom' = z
    /\ UNCHANGED <<editor, imageSrc, crop, rotation, cropShape, aspectRatio,
                   croppedAreaPixels, selectedDate, finalImage, showTouchControls,
                   readers, calls>>

onRotationChange(angle) ==
    /\ imageSrc # "null"
    /\ rotation' = angle
    /\ UNCHANGED <<editor, imageSrc, crop, zoom, cropShape, aspectRatio,
                   croppedAreaPixels, selectedDate, finalImage, showTouchControls,
                   readers, calls>>

----------------------------------------------------------------------------
(* The controls.  All of them are rendered only with an image. *)

ZoomCap == 30       \* Math.min(prev + 0.1, 3), in tenths

(* First definition: <input type="range"> for zoom and for rotation. *)
ZoomSlider(z) ==
    /\ editor = "first"
    /\ onZoomChange(z)

RotationSlider(angle) ==
    /\ editor = "first"
    /\ angle >= 0 /\ angle <= 360
    /\ onRotationChange(angle)

(* Second definition: the quick actions bar. *)
Rotate90 ==
    /\ editor = "second"
    /\ onRotationChange((rotation + 90) % 360)

ZoomIn ==
    /\ editor = "second"
    /\ zoom >= ZoomCap - MaxZoomSteps
    /\ onZoomChange(Min(zoom + 1, ZoomCap))

ZoomReset ==
    /\ editor = "second"
    /\ onZoomChange(10)

SetShowTouchControls(b) ==
    /\ editor = "second"
    /\ imageSrc # "null"
    /\ showTouchControls = ~b
    /\ showTouchControls' = b
    /\ UNCHANGED <<editor, imageSrc, crop, zoom, rotation, cropShape, aspectRatio,
                   croppedAreaPixels, selectedDate, finalImage, readers, calls>>

SetCropShape(shape) ==
    /\ imageSrc # "null"
    /\ cropShape' = shape
    /\ UNCHANGED <<editor, imageSrc, crop, zoom, rotation, aspectRatio,
                   croppedAreaPixels, selectedDate, finalImage, showTouchControls,
                   readers, calls>>

(* The <select>: 'free' gives null, the other options Number(value). *)
SetAspectRatio(value) ==
    /\ imageSrc # "null"
    /\ aspectRatio' = value
    /\ UNCHANGED <<editor, imageSrc, crop, zoom, rotation, cropShape,
                   croppedAreaPixels, selectedDate, finalImage, showTouchControls,
                   readers, calls>>

(* A date change that also discards the result. *)
SetSelectedDateClearing(date) ==
    /\ imageSrc # "null"
    /\ selectedDate' = date
    /\ finalImage' = null
    /\ UNCHANGED <<editor, imageSrc, crop, zoom, rotation, cropShape, aspectRatio,
                   croppedAreaPixels, showTouchControls, readers, calls>>

(* DatePicker's onChange: a Date, or null when the field is cleared. *)
SetSelectedDate(date) ==
    /\ imageSrc # "null"
    /\ selectedDate' = date
    /\ UNCHANGED <<editor, imageSrc, crop, zoom, rotation, cropShape, aspectRatio,
                   croppedAreaPixels, finalImage, showTouchControls, readers, calls>>

----------------------------------------------------------------------------
(* createFinalImage.  A call is the record of the values it closed over;    *)
(* pc is where it stands: "returned" (the early return), "await" (at the    *)
(* await of image.onload), "done" (after setFinalImage).  decode is what    *)
(* the Image it created has done: "pending", "loaded" or "failed".          *)

Generate(limit) ==
    /\ imageSrc # "null"
    /\ Len(calls) < limit
    /\ LET early == croppedAreaPixels = null \/ selectedDate = null
       IN  calls' = Append(calls,
                [pc |-> IF early THEN "returned" ELSE "await",
                 decode |-> "pending",
                 imageSrc |-> imageSrc,
                 croppedAreaPixels |-> croppedAreaPixels,
                 selectedDate |-> selectedDate,
                 cropShape |-> cropShape,
                 rotation |-> rotation,
                 result |-> null])
    /\ UNCHANGED <<editor, imageSrc, finalImage, readers>>
    /\ UNCHANGED ui

(* The call reads the rotation and the crop shape from the state as it is   *)
(* when the Image has loaded, not from the values it closed over.           *)
ImageLoadedLate(i) ==
    /\ i \in 1..Len(calls)
    /\ calls[i].pc = "await"
    /\ calls[i].decode = "pending"
    /\ Decodable(calls[i].imageSrc)
    /\ LET late == [calls[i] EXCEPT !.rotation = rotation, !.cropShape = cropShape]
       IN  /\ finalImage' = ToDataURL(late)
           /\ calls' = [calls EXCEPT ![i].pc = "done", ![i].decode = "loaded",
                                     ![i].result = ToDataURL(late)]
    /\ UNCHANGED <<editor, imageSrc, readers>>
    /\ UNCHANGED ui

(* The load event of call i's Image: the promise resolves and the rest of   *)
(* the function runs to setFinalImage without another suspension.           *)
ImageLoaded(i) ==
    /\ i \in 1..Len(calls)
    /\ calls[i].pc = "await"
    /\ calls[i].decode = "pending"
    /\ Decodable(calls[i].imageSrc)
    /\ finalImage' = ToDataURL(calls[i])
    /\ calls' = [calls EXCEPT ![i].pc = "done", ![i].decode = "loaded",
                              ![i].result = ToDataURL(calls[i])]
    /\ UNCHANGED <<editor, imageSrc, readers>>
    /\ UNCHANGED ui

(* The error event of call i's Image.  Only onload is set: nothing resolves *)
(* or rejects the promise, and the call stays at the await.                 *)
ImageError(i) ==
    /\ i \in 1..Len(calls)
    /\ calls[i].pc = "await"
    /\ calls[i].decode = "pending"
    /\ ~Decodable(calls[i].imageSrc)
    /\ calls' = [calls EXCEPT ![i].decode = "failed"]
    /\ UNCHANGED <<editor, imageSrc, finalImage, readers>>
    /\ UNCHANGED ui

----------------------------------------------------------------------------
(* Spec: uploads, crop reports, date changes and generate calls, with the   *)
(* FileReader and Image events in every order.                              *)

Dates == {Date(2024, 2, 7), Date(2025, 10, 30)}

CropRects == {Rect(0, 0, 0, 50), Rect(0, 0, 1, 50), Rect(0, 0, 100, 50)}

Init == InitOn(Dates)

PickFile == \E f \in Files : SelectFile(f)

FileRead == \E f \in Files : ReaderLoad(f)

CropReported == \E rect \in CropRects : onCropComplete(rect)

DatePicked == \E date \in Dates \cup {null} : SetSelectedDate(date)

Decoded == \E i \in 1..MaxCalls : ImageLoaded(i)

DecodeFailed == \E i \in 1..MaxCalls : ImageError(i)

Next ==
    \/ PickFile
    \/ SelectNoFile
    \/ FileRead
    \/ CropReported
    \/ DatePicked
    \/ Generate(MaxCalls)
    \/ Decoded
    \/ DecodeFailed

Spec == Init /\ [][Next]_vars

----------------------------------------------------------------------------
(* SpecEdit: one image; the crop area, the rotation and the crop shape are  *)
(* edited between generate calls.                                           *)

EditRects == {Rect(0, 0, 1000, 50), Rect(0, 0, 100, 50), Rect(900, 0, 20, 50)}

SliderAngles == {90, 360}

InitEdit == InitOn({Date(2024, 2, 7)})

PickWide == SelectFile("wide")

WideRead == ReaderLoad("wide")

EditCropReported == \E rect \in EditRects : onCropComplete(rect)

AngleSlid == \E angle \in SliderAngles : RotationSlider(angle)

ShapePicked == \E shape \in {"rect", "round"} : SetCropShape(shape)

NextEdit ==
    \/ PickWide
    \/ WideRead
    \/ EditCropReported
    \/ AngleSlid
    \/ Rotate90
    \/ ShapePicked
    \/ Generate(MaxEditCalls)
    \/ Decoded

SpecEdit == InitEdit /\ [][NextEdit]_vars

----------------------------------------------------------------------------
(* SpecView: one image and one crop area; the state createFinalImage does   *)
(* not close over (crop offset, zoom, aspect ratio) is edited between       *)
(* generate calls, and so is the rotation.                                  *)

ViewRects == {Rect(0, 0, 100, 50)}

ZoomInputs == {29}

CropPoints == {[x |-> 5, y |-> 0]}

AspectOptions == {[value |-> 10000]}

ViewCropReported == \E rect \in ViewRects : onCropComplete(rect)

CropDragged == \E point \in CropPoints \cup {Origin} : onCropChange(point)

ZoomWheeled == \E z \in ZoomInputs : onZoomChange(z)

ZoomSlid == \E z \in ZoomInputs \cup {10} : ZoomSlider(z)

AspectPicked == SetAspectRatio(null) \/ \E value \in AspectOptions : SetAspectRatio(value)

NextView ==
    \/ PickWide
    \/ WideRead
    \/ ViewCropReported
    \/ CropDragged
    \/ ZoomWheeled
    \/ ZoomSlid
    \/ ZoomIn
    \/ ZoomReset
    \/ AngleSlid
    \/ Rotate90
    \/ AspectPicked
    \/ Generate(MaxCalls)
    \/ Decoded

SpecView == InitEdit /\ [][NextView]_vars

----------------------------------------------------------------------------
(* SpecFormat: the component is mounted on any day of the years below; one  *)
(* image is uploaded, cropped and stamped.                                  *)

Years == {999, 2024}

DaysInMonth(y, m) ==
    CASE m = 1 -> IF y % 4 = 0 /\ (y % 100 # 0 \/ y % 400 = 0) THEN 29 ELSE 28
      [] m \in {3, 5, 8, 10} -> 30
      [] OTHER -> 31

CalendarDates ==
    {date \in [year : Years, month : 0..11, day : 1..31] :
        date.day <= DaysInMonth(date.year, date.month)}

InitFormat == InitOn(CalendarDates)

NextFormat ==
    \/ PickWide
    \/ WideRead
    \/ ViewCropReported
    \/ Generate(MaxCalls)
    \/ Decoded

SpecFormat == InitFormat /\ [][NextFormat]_vars

----------------------------------------------------------------------------
(* SpecDate: one image is uploaded, cropped and stamped; the date is        *)
(* changed or cleared before and after.                                     *)

NextDate ==
    \/ PickWide
    \/ WideRead
    \/ ViewCropReported
    \/ DatePicked
    \/ Generate(MaxCalls)
    \/ Decoded

SpecDate == Init /\ [][NextDate]_vars

----------------------------------------------------------------------------
(* SpecMask: a large half-transparent photo; crop areas of a few pixels and *)
(* more, both shapes and every quarter turn, then one generate call.        *)

MaskRects == {Rect(0, 0, 2, 2), Rect(0, 0, 20, 2), Rect(0, 0, 100, 50)}

PickLarge == SelectFile("large")

LargeRead == ReaderLoad("large")

MaskCropReported == \E rect \in MaskRects : onCropComplete(rect)

NextMask ==
    \/ PickLarge
    \/ LargeRead
    \/ MaskCropReported
    \/ AngleSlid
    \/ Rotate90
    \/ ShapePicked
    \/ Generate(MaxEditCalls)
    \/ Decoded

SpecMask == InitEdit /\ [][NextMask]_vars

----------------------------------------------------------------------------
(* SpecLabel: the same photo cropped to widths from 50 to 4000 pixels and   *)
(* stamped with a date of ten or of eleven characters.                      *)

LabelRects ==
    {Rect(0, 0, 50, 50), Rect(0, 0, 100, 50), Rect(0, 0, 639, 480),
     Rect(0, 0, 641, 480), Rect(0, 0, 4000, 3000)}

InitLabel == InitOn({Date(2024, 2, 7), Date(12345, 11, 31)})

LabelCropReported == \E rect \in LabelRects : onCropComplete(rect)

NextLabel ==
    \/ PickLarge
    \/ LargeRead
    \/ LabelCropReported
    \/ Generate(MaxEditCalls)
    \/ Decoded

SpecLabel == InitLabel /\ [][NextLabel]_vars

----------------------------------------------------------------------------
(* SpecControls: one image; every control of the page is used, before and   *)
(* after a generate call.                                                   *)

DateCleared == SetSelectedDate(null)

HintToggled == \E b \in BOOLEAN : SetShowTouchControls(b)

NextControls ==
    \/ PickWide
    \/ SelectNoFile
    \/ WideRead
    \/ ViewCropReported
    \/ CropDragged
    \/ ZoomWheeled
    \/ ZoomSlid
    \/ ZoomIn
    \/ ZoomReset
    \/ AngleSlid
    \/ ShapePicked
    \/ AspectPicked
    \/ DateCleared
    \/ HintToggled
    \/ Generate(MaxEditCalls)
    \/ Decoded

SpecControls == InitEdit /\ [][NextControls]_vars

----------------------------------------------------------------------------
(* SpecLate: everything a generate call closes over (image, crop area,      *)
(* rotation, crop shape, date) is changed while the call waits for its      *)
(* Image to load.                                                           *)

LateRects == {Rect(0, 0, 100, 50), Rect(900, 0, 20, 50)}

LateCropReported == \E rect \in LateRects : onCropComplete(rect)

QuarterSlid == RotationSlider(90)

DateMoved == SetSelectedDate(Date(2025, 10, 30))

NextLate ==
    \/ PickWide
    \/ WideRead
    \/ PickLarge
    \/ LargeRead
    \/ LateCropReported
    \/ QuarterSlid
    \/ ShapePicked
    \/ DateMoved
    \/ Generate(MaxEditCalls)
    \/ Decoded

SpecLate == InitEdit /\ [][NextLate]_vars

----------------------------------------------------------------------------
(* Reading a token back: the number a run of digit characters denotes. *)

IsDigit(ch) == \E d \in 0..9 : DigitChar(d) = ch

DigitValue(ch) == CHOOSE d \in 0..9 : DigitChar(d) = ch

AllDigits(s) == \A k \in 1..Len(s) : IsDigit(s[k])

RECURSIVE ParseNat(_)
ParseNat(s) ==
    IF Len(s) = 0 THEN 0
    ELSE ParseNat(SubSeq(s, 1, Len(s) - 1)) * 10 + DigitValue(s[Len(s)])

(* t is the year's digits, a separator, two digits that read as the month   *)
(* (1..12), the separator, two digits that read as the day.                 *)
IsDateToken(t, date, sep) ==
    LET n == Len(t)
        yyyy == SubSeq(t, 1, n - 6)
        mm == SubSeq(t, n - 4, n - 3)
        dd == SubSeq(t, n - 1, n)
    IN  /\ n >= 7
        /\ t[n - 5] = sep /\ t[n - 2] = sep
        /\ AllDigits(yyyy) /\ ParseNat(yyyy) = date.year
        /\ AllDigits(mm) /\ ParseNat(mm) = date.month + 1
        /\ AllDigits(dd) /\ ParseNat(dd) = date.day
        /\ (date.year >= 1000 /\ date.year <= 9999 => n = 10)

IsResult(image) == image # null /\ image # EmptyDataURL

Done(i) == i \in 1..Len(calls) /\ calls[i].pc = "done"

----------------------------------------------------------------------------
(* C1: the canvas a completed call encoded is exactly as wide and as high   *)
(* as the crop rectangle the call was issued with, whatever the rotation    *)
(* and the crop shape.                                                      *)
C1_OutputSize ==
    \A i \in 1..Len(calls) :
        (Done(i) /\ IsResult(calls[i].result))
            => /\ calls[i].result.width = calls[i].croppedAreaPixels.width
               /\ calls[i].result.height = calls[i].croppedAreaPixels.height

(* A round crop of 1000 x 50, rotated by 90 degrees, has been generated. *)
C1_Witness ==
    \E i \in 1..Len(calls) :
        /\ Done(i) /\ IsResult(calls[i].result)
        /\ calls[i].rotation = 90
        /\ calls[i].cropShape = "round"
        /\ calls[i].croppedAreaPixels = Rect(0, 0, 1000, 50)

----------------------------------------------------------------------------
(* C2: formatDate maps a date to its year's digits, "/", the month as two   *)
(* digits (zero-padded, 01..12), "/", the day as two digits (zero-padded):  *)
(* the text stamped by every completed call reads back as the date the call *)
(* was issued with, and is ten characters long for a four-digit year.       *)
C2_FormatDate ==
    \A i \in 1..Len(calls) :
        (Done(i) /\ IsResult(calls[i].result))
            => IsDateToken(calls[i].result.text, calls[i].selectedDate, "/")

(* 7 March 2024 has been stamped as "2024/03/07". *)
C2_Witness ==
    \E i \in 1..Len(calls) :
        /\ Done(i) /\ IsResult(calls[i].result)
        /\ calls[i].selectedDate = Date(2024, 2, 7)
        /\ calls[i].result.text = <<"2", "0", "2", "4", "/", "0", "3", "/", "0", "7">>

----------------------------------------------------------------------------
(* C3 as claimed: while a result is offered for download, the file name is  *)
(* photo_<T>.png with <T> the token stamped into that result, dashes for    *)
(* slashes.                                                                 *)
C3_StampedName ==
    IsResult(finalImage) => DownloadName = Photo(ReplaceAll(finalImage.text, "/", "-"))

(* C3 as amended: while a result is offered for download, the file name is  *)
(* photo_<T>.png with <T> the token of the date selected now, dashes for    *)
(* slashes, and photo_edited.png when no date is selected.                  *)
C3_CurrentName ==
    finalImage # null =>
        IF selectedDate = null
        THEN DownloadName = Photo(<<"e", "d", "i", "t", "e", "d">>)
        ELSE LET n == Len(DownloadName)
             IN  /\ n >= 10
                 /\ SubSeq(DownloadName, 1, 6) = <<"p", "h", "o", "t", "o", "_">>
                 /\ SubSeq(DownloadName, n - 3, n) = <<".", "p", "n", "g">>
                 /\ IsDateToken(SubSeq(DownloadName, 7, n - 4), selectedDate, "-")

(* A result is on display whose stamp is not the token of the date selected *)
(* now: the date was changed after the call was issued.                     *)
C3_Witness ==
    /\ IsResult(finalImage)
    /\ selectedDate # null
    /\ finalImage.text # formatDate(selectedDate)

----------------------------------------------------------------------------
(* C4: for an output of width w the label's font size is min(w * 0.05, 32)  *)
(* pixels and the padding, the label box's inset, 0.75 of the font size;    *)
(* width 100 gives 5 and width 1000 gives 32.                               *)
C4_FontScaling ==
    \A i \in 1..Len(calls) :
        (Done(i) /\ IsResult(calls[i].result)) =>
            LET w == calls[i].result.width
                label == calls[i].result.label
            IN  /\ 20 * label.fontSize = Min(w * PxUnit, 20 * FontCap * PxUnit)
                /\ 4 * label.boxX = 3 * label.fontSize
                /\ (w = 100 => label.fontSize = 5 * PxUnit)
                /\ (w = 1000 => label.fontSize = 32 * PxUnit)

----------------------------------------------------------------------------
InvalidCrop(rect) == rect.width <= 0 \/ rect.height <= 0

(* C5: a call issued with a crop rectangle of zero or negative width or     *)
(* height never stores a result.                                            *)
C5_InvalidCropAborts ==
    \A i \in 1..Len(calls) :
        Done(i) => ~InvalidCrop(calls[i].croppedAreaPixels)

(* C6: a call whose image failed to decode is no longer suspended at the    *)
(* wait for the decode.                                                     *)
C6_DecodeFailureEnds ==
    \A i \in 1..Len(calls) :
        calls[i].decode = "failed" => calls[i].pc # "await"

(* C7: a generate attempt that hits an error condition (the early return    *)
(* for a missing crop rectangle or date, a decode failure, a zero or        *)
(* negative crop rectangle) leaves finalImage as it was.                    *)
C7_ErrorsKeepResult ==
    [][/\ (Len(calls') = Len(calls) + 1 /\ calls'[Len(calls')].pc = "returned")
            => finalImage' = finalImage
       /\ \A i \in 1..Len(calls) :
            /\ (calls[i].decode = "pending" /\ calls'[i].decode = "failed")
                 => finalImage' = finalImage
            /\ (calls[i].pc = "await" /\ calls'[i].pc = "done"
                    /\ InvalidCrop(calls[i].croppedAreaPixels))
                 => finalImage' = finalImage]_vars

(* C8: a result on display was composited from the current imageSrc. *)
C8_ResultFromCurrentImage ==
    IsResult(finalImage) => finalImage.image = imageSrc

(* C9: of two calls that each computed a result the later-issued one        *)
(* supersedes the earlier: once both have completed, in either order, a     *)
(* result on display is the one the later call computed.                    *)
C9_LaterSupersedes ==
    \A i, j \in 1..Len(calls) :
        (/\ i < j /\ Done(i) /\ Done(j)
         /\ IsResult(calls[i].result) /\ IsResult(calls[j].result)
         /\ \A k \in 1..Len(calls) : k > j => ~Done(k)
         /\ finalImage # null)
            => finalImage = calls[j].result

----------------------------------------------------------------------------
SameInputs(c, d) ==
    /\ c.imageSrc = d.imageSrc
    /\ c.croppedAreaPixels = d.croppedAreaPixels
    /\ c.rotation = d.rotation
    /\ c.cropShape = d.cropShape
    /\ c.selectedDate = d.selectedDate

----------------------------------------------------------------------------
Round(i) == Done(i) /\ IsResult(calls[i].result) /\ calls[i].result.mask

(* Pixel (px, py) against the disc centred on a w x h canvas with radius    *)
(* min(w, h) / 2, in half pixels: wholly outside, wholly inside.            *)
OutsideDisc(px, py, w, h) ==
    LET nearX == Max(2 * px, Min(w, 2 * px + 2))
        nearY == Max(2 * py, Min(h, 2 * py + 2))
    IN  (nearX - w) * (nearX - w) + (nearY - h) * (nearY - h) >= Min(w, h) * Min(w, h)

InsideDisc(px, py, w, h) ==
    \A x \in {2 * px, 2 * px + 2}, y \in {2 * py, 2 * py + 2} :
        (x - w) * (x - w) + (y - h) * (y - h) <= Min(w, h) * Min(w, h)

(* Pixel (px, py) shares no area with the label's background box. *)
ClearOfLabel(px, py, label) ==
    \/ label.boxX >= (px + 1) * PxUnit
    \/ label.boxX + label.boxW <= px * PxUnit
    \/ label.boxY >= (py + 1) * PxUnit
    \/ label.boxY + label.boxH <= py * PxUnit

(* C11 as claimed: in every round result the corner pixel (0,0) is fully    *)
(* transparent and the centre pixel has the alpha of the drawn image.       *)
C11_RoundClip ==
    \A i \in 1..Len(calls) :
        Round(i) => /\ calls[i].result.corner = 0
                    /\ calls[i].result.centre = SourceAlpha(calls[i].result.image)

(* C11 as amended: in a round result the corner pixel (0,0) is fully        *)
(* transparent when it lies wholly outside the disc centred on the canvas   *)
(* with radius min(width, height) / 2 and outside the label box, and the    *)
(* centre pixel has the alpha of the drawn image when it lies wholly inside *)
(* that disc and outside the label box.                                     *)
C11_RoundClipClear ==
    \A i \in 1..Len(calls) :
        Round(i) =>
            LET r == calls[i].result
            IN  /\ (OutsideDisc(0, 0, r.width, r.height) /\ ClearOfLabel(0, 0, r.label))
                    => r.corner = 0
                /\ (/\ InsideDisc(r.width \div 2, r.height \div 2, r.width, r.height)
                    /\ ClearOfLabel(r.width \div 2, r.height \div 2, r.label))
                    => r.centre = SourceAlpha(r.image)

(* A round crop of 100 x 50 of the half-transparent photo, turned by 90     *)
(* degrees: the corner came out transparent, the centre half-transparent.   *)
C11_Witness ==
    \E i \in 1..Len(calls) :
        /\ Round(i)
        /\ editor = "second"
        /\ calls[i].rotation = 90
        /\ calls[i].croppedAreaPixels = Rect(0, 0, 100, 50)
        /\ calls[i].result.corner = 0
        /\ calls[i].result.centre = AlphaOne \div 2

----------------------------------------------------------------------------
Stamped(i) == Done(i) /\ IsResult(calls[i].result)

(* C12: for every output width from 50 to 4000 pixels the label background  *)
(* box contains the label text: the text runs from its start to its start   *)
(* plus the measured width, and from its ascent above the baseline to its   *)
(* descent below it, all inside the rectangle painted for the box.          *)
C12_BoxContainsText ==
    \A i \in 1..Len(calls) :
        (Stamped(i) /\ calls[i].result.width >= 50 /\ calls[i].result.width <= 4000) =>
            LET label == calls[i].result.label
                ascent == (label.fontSize * FontAscent) \div EmUnit
                descent == (label.fontSize * FontDescent) \div EmUnit
            IN  /\ label.textW = TextWidth(calls[i].result.text, label.fontSize)
                /\ label.boxX <= label.textX
                /\ label.textX + label.textW <= label.boxX + label.boxW
                /\ label.boxY <= label.textY - ascent
                /\ label.textY + descent <= label.boxY + label.boxH

(* The second definition has stamped an eleven-character date at the font   *)
(* cap on an output 4000 pixels wide.                                       *)
C12_Witness ==
    \E i \in 1..Len(calls) :
        /\ Stamped(i)
        /\ editor = "second"
        /\ calls[i].result.width = 4000
        /\ Len(calls[i].result.text) = 11
        /\ calls[i].result.label.fontSize = FontCap * PxUnit
        /\ calls[i].result.label.textX = 2 * calls[i].result.label.boxX

----------------------------------------------------------------------------
(* C13: the label background box starts padding pixels from the left edge   *)
(* of the canvas and ends padding pixels above its bottom edge, is          *)
(* fontSize + 2 * padding high and textWidth + 2 * padding wide, with       *)
(* padding 0.75 of the font size.                                           *)
C13_BoxGeometry ==
    \A i \in 1..Len(calls) :
        Stamped(i) =>
            LET label == calls[i].result.label
                padding == (label.fontSize * 3) \div 4
            IN  /\ label.boxX = padding
                /\ label.boxY + label.boxH = calls[i].result.height * PxUnit - padding
                /\ label.boxH = label.fontSize + 2 * padding
                /\ label.boxW = label.textW + 2 * padding

----------------------------------------------------------------------------
OpsOf(steps) == [k \in 1..Len(steps) |-> steps[k].op]

(* C14: a completed call made its drawing calls in this order and no other: *)
(* rotate about the centre, draw the cropped image, restore the transform,  *)
(* fill the circular mask (round shape only, as 'destination-in'), paint    *)
(* the label background, paint the label text, encode.  The label calls     *)
(* were made under the identity transform and 'source-over', whatever the   *)
(* rotation and the shape.                                                  *)
C14_DrawingOrder ==
    \A i \in 1..Len(calls) :
        Stamped(i) =>
            LET steps == calls[i].result.steps
            IN  /\ OpsOf(steps) =
                      IF calls[i].cropShape = "round"
                      THEN <<"rotate", "drawImage", "restore", "fill",
                             "fillRect", "fillText", "toDataURL">>
                      ELSE <<"rotate", "drawImage", "restore",
                             "fillRect", "fillText", "toDataURL">>
                /\ \A k \in 1..Len(steps) :
                      /\ steps[k].op \in {"fillRect", "fillText"}
                            => steps[k].identity /\ steps[k].composite = "source-over"
                      /\ steps[k].op = "fill"
                            => steps[k].identity /\ steps[k].composite = "destination-in"
                      /\ steps[k].op = "drawImage" => steps[k].composite = "source-over"

(* A round result turned by 270 degrees has been composited in seven        *)
(* drawing calls.                                                           *)
C14_Witness ==
    \E i \in 1..Len(calls) :
        /\ Stamped(i)
        /\ calls[i].cropShape = "round"
        /\ calls[i].rotation = 270
        /\ Len(calls[i].result.steps) = 7
        /\ finalImage = calls[i].result

----------------------------------------------------------------------------
(* C15: finalImage changes only when a generate call completes and stores   *)
(* its result, or when a new image finishes loading and sets it to null;    *)
(* every other step (crop offset, zoom, rotation, crop shape, aspect ratio, *)
(* date, the touch-controls hint, a file dialog closed without a file, a    *)
(* generate click) leaves it as it was.                                     *)
C15_ResultFrame ==
    [][finalImage' # finalImage =>
          \/ \E i \in 1..Len(calls) :
                /\ calls[i].pc = "await" /\ calls'[i].pc = "done"
                /\ finalImage' = calls'[i].result
          \/ /\ imageSrc' \in readers
             /\ readers' = readers \ {imageSrc'}
             /\ finalImage' = null]_vars

(* The result of the only call is still on display after the crop offset,   *)
(* the zoom, the shape, the aspect ratio, the date and the hint have all    *)
(* been changed.                                                            *)
C15_Witness ==
    /\ Len(calls) = 1 /\ Stamped(1)
    /\ finalImage = calls[1].result
    /\ crop # Origin
    /\ zoom = ZoomCap
    /\ cropShape # calls[1].cropShape
    /\ aspectRatio # null
    /\ selectedDate = null
    /\ showTouchControls = FALSE

----------------------------------------------------------------------------
(* C16: in every state the controls can reach, 0 <= rotation < 360. *)
C16_RotationInRange == rotation >= 0 /\ rotation < 360

----------------------------------------------------------------------------
(* C17: the crop rectangle a completed call composited with lies within the *)
(* image the call drew from, in every order of uploads, crop reports and    *)
(* generate clicks.  (Rectangles of zero width or height are C5's case.)    *)
C17_CropInsideSource ==
    \A i \in 1..Len(calls) :
        (Done(i) /\ ~InvalidCrop(calls[i].croppedAreaPixels)) =>
            LET rect == calls[i].croppedAreaPixels
            IN  /\ rect.x >= 0 /\ rect.y >= 0
                /\ rect.x + rect.width <= NaturalWidth(calls[i].imageSrc)
                /\ rect.y + rect.height <= NaturalHeight(calls[i].imageSrc)

----------------------------------------------------------------------------
(* C18: a generate call takes the image, crop rectangle, rotation, crop     *)
(* shape and date of the state it is issued in, keeps them while it waits   *)
(* for its Image, and on completion stores the composite of exactly those   *)
(* values, whatever the state has become in the meantime.                   *)
C18_ClosedOverValues ==
    [][/\ Len(calls') = Len(calls) + 1 =>
            LET c == calls'[Len(calls')]
            IN  /\ c.imageSrc = imageSrc
                /\ c.croppedAreaPixels = croppedAreaPixels
                /\ c.rotation = rotation
                /\ c.cropShape = cropShape
                /\ c.selectedDate = selectedDate
       /\ \A i \in 1..Len(calls) :
            /\ SameInputs(calls'[i], calls[i])
            /\ (calls[i].pc = "await" /\ calls'[i].pc = "done"
                    /\ IsResult(calls'[i].result)) =>
                  LET r == calls'[i].result
                  IN  /\ r.image = calls[i].imageSrc
                      /\ Rect(r.sx, r.sy, r.sw, r.sh) = calls[i].croppedAreaPixels
                      /\ r.rotation = calls[i].rotation
                      /\ r.mask = (calls[i].cropShape = "round")
                      /\ r.text = formatDate(calls[i].selectedDate)
                      /\ finalImage' = r]_vars

(* The only call has stored its result although the image was replaced      *)
(* while it waited (a replacement after it completed would have reset       *)
(* finalImage), and the crop rectangle, the rotation, the shape and the     *)
(* date are no longer the ones it was issued with.                          *)
C18_Witness ==
    /\ Len(calls) = 1 /\ Stamped(1)
    /\ finalImage = calls[1].result
    /\ imageSrc # calls[1].imageSrc
    /\ croppedAreaPixels # calls[1].croppedAreaPixels
    /\ rotation # calls[1].rotation
    /\ cropShape # calls[1].cropShape
    /\ selectedDate # calls[1].selectedDate

====
